---------------------------- MODULE Spec2Model ----------------------------
(***************************************************************************)
(* A model of PGA_PGV_ALL_114007.py: the station file parser, the header   *)
(* epicenter parser, the predicted and observed intensity classification,  *)
(* and the control flow of main() up to the rendering pass.                *)
(*                                                                         *)
(* Text is a sequence of symbols.  A symbol is one character ("1", ".",    *)
(* "=", ",", " ") or one word of the file format kept whole ("Stacode",    *)
(* "Stalon", "PGA(SUM)", "Lon:", "inf", ...).  The CJK characters of the   *)
(* observed labels are written in pinyin: "ji" (U+7D1A), "qiang" (U+5F37), *)
(* "ruo" (U+5F31).                                                         *)
(*                                                                         *)
(* A float is [k, v]: k = "num" with v the value in hundredths, or         *)
(* k = "inf" / "nan" (v = 0).  Comparisons with a nan are all false, as in *)
(* IEEE 754.                                                               *)
(***************************************************************************)
EXTENDS Integers, Sequences, FiniteSets, TLC

VARIABLES
    pc,                \* main(): the position of the run
    file,              \* the environment: the station file 2025007.txt
    attempts,          \* the encodings open() was called with, in order
    header,            \* main(): header
    stations,          \* main(): stations (a list of dicts)
    stdout,            \* everything print() wrote, in order
    actual_epicenter,  \* main(): actual_epicenter
    exc,               \* the exception that ended the run, or "none"
    ax_obs,            \* the texts drawn on the observed intensity map
    text,              \* parse_station_data: text
    parts,             \* parse_station_data: parts
    i,                 \* the number of iterations done in the loop the run is in
    fn, args, ret      \* a single call of one of the pure functions

mainVars == <<pc, file, attempts, header, stations, stdout, actual_epicenter, exc, ax_obs,
              text, parts, i>>
callVars == <<fn, args, ret>>
vars == <<pc, file, attempts, header, stations, stdout, actual_epicenter, exc, ax_obs,
          text, parts, i, fn, args, ret>>

(***************************************************************************)
(* Bounds of the model.                                                    *)
(***************************************************************************)
Near == 2          \* inputs of the classifier lie within Near hundredths of a threshold
MaxLabelLen == 2   \* symbols in an observed label
MaxHeaderLen == 5  \* symbols in a header given to parse_actual_epicenter
MaxRecords == 2    \* station records in the file

(***************************************************************************)
(* Floats.                                                                 *)
(***************************************************************************)
Num(v) == [k |-> "num", v |-> v]
Inf == [k |-> "inf", v |-> 0]
NegInf == [k |-> "-inf", v |-> 0]
NaN == [k |-> "nan", v |-> 0]

\* x < c and x >= c for a float x and a finite c given in hundredths
Lt(x, c) == x.k = "-inf" \/ (x.k = "num" /\ x.v < c)
Ge(x, c) == x.k = "inf" \/ (x.k = "num" /\ x.v >= c)

(***************************************************************************)
(* Strings: str.strip, str.find, str.split, and "=" in field / split("=",1)*)
(***************************************************************************)
IsSpace(c) == c \in {" ", "\n"}

RECURSIVE lstrip(_)
lstrip(s) == IF s # <<>> /\ IsSpace(Head(s)) THEN lstrip(Tail(s)) ELSE s

RECURSIVE rstrip(_)
rstrip(s) == IF s # <<>> /\ IsSpace(s[Len(s)]) THEN rstrip(SubSeq(s, 1, Len(s) - 1)) ELSE s

strip(s) == rstrip(lstrip(s))

\* the first index at which sep occurs in s, 0 if none
find(s, sep) ==
    LET hits == {j \in 1..(Len(s) - Len(sep) + 1) : SubSeq(s, j, j + Len(sep) - 1) = sep}
    IN  IF hits = {} THEN 0 ELSE CHOOSE j \in hits : \A h \in hits : j <= h

RECURSIVE split(_, _)
split(s, sep) ==
    LET j == find(s, sep)
    IN  IF j = 0 THEN <<s>>
        ELSE <<SubSeq(s, 1, j - 1)>> \o split(SubSeq(s, j + Len(sep), Len(s)), sep)

(***************************************************************************)
(* float(str): surrounding whitespace is ignored; "inf" and "nan" are      *)
(* floats; a decimal literal has an optional sign, at least one digit and  *)
(* at most one "."; anything else raises ValueError.  The value is kept in *)
(* hundredths (the texts of the model have at most two decimals).          *)
(***************************************************************************)
Digits == {"0", "1", "2", "3", "4", "5", "6", "7", "8", "9"}

DigitVal(c) ==
    CASE c = "0" -> 0 [] c = "1" -> 1 [] c = "2" -> 2 [] c = "3" -> 3 [] c = "4" -> 4
      [] c = "5" -> 5 [] c = "6" -> 6 [] c = "7" -> 7 [] c = "8" -> 8 [] c = "9" -> 9

RECURSIVE DecimalInt(_)
DecimalInt(s) == IF s = <<>> THEN 0
                 ELSE 10 * DecimalInt(SubSeq(s, 1, Len(s) - 1)) + DigitVal(s[Len(s)])

IsDecimal(s) ==
    /\ \A j \in 1..Len(s) : s[j] \in Digits \cup {"."}
    /\ \E j \in 1..Len(s) : s[j] \in Digits
    /\ Cardinality({j \in 1..Len(s) : s[j] = "."}) <= 1

DecimalValue(s) ==
    LET dot  == find(s, <<".">>)
        int  == IF dot = 0 THEN s ELSE SubSeq(s, 1, dot - 1)
        frac == IF dot = 0 THEN <<>> ELSE SubSeq(s, dot + 1, Len(s))
        two  == SubSeq(frac \o <<"0", "0">>, 1, 2)
    IN  100 * DecimalInt(int) + DecimalInt(two)

ValueError == [k |-> "ValueError", v |-> 0]

float(str) ==
    LET s    == strip(str)
        neg  == s # <<>> /\ Head(s) = "-"
        body == IF s # <<>> /\ Head(s) \in {"-", "+"} THEN Tail(s) ELSE s
    IN  IF body = <<"inf">> THEN (IF neg THEN NegInf ELSE Inf)
        ELSE IF body = <<"nan">> THEN NaN
        ELSE IF IsDecimal(body)
             THEN Num(IF neg THEN 0 - DecimalValue(body) ELSE DecimalValue(body))
        ELSE ValueError

(***************************************************************************)
(* parse_actual_epicenter: re.search(r"Lon:([\d\.]+)", header) finds the    *)
(* leftmost "Lon:" that is followed by a digit or a dot, and its group is  *)
(* the longest run of digits and dots after it.                            *)
(***************************************************************************)
RECURSIVE Run(_)
Run(s) == IF s # <<>> /\ Head(s) \in Digits \cup {"."} THEN <<Head(s)>> \o Run(Tail(s))
          ELSE <<>>

\* the group of the match of  label([\d\.]+)  in s, <<>> when there is no match
re_search(label, s) ==
    LET hits == {j \in 1..(Len(s) - 1) : s[j] = label /\ s[j + 1] \in Digits \cup {"."}}
    IN  IF hits = {} THEN <<>>
        ELSE LET j == CHOOSE h \in hits : \A g \in hits : h <= g
             IN  Run(SubSeq(s, j + 1, Len(s)))

Returned(val) == [st |-> "returned", val |-> val]
Raised(e) == [st |-> "raised", val |-> e]
None == <<>>

parse_actual_epicenter(h) ==
    LET lon_match == re_search("Lon:", h)
        lat_match == re_search("Lat:", h)
    IN  IF lon_match # <<>> /\ lat_match # <<>>
        THEN IF float(lon_match) = ValueError \/ float(lat_match) = ValueError
             THEN Raised("ValueError")
             ELSE Returned(<<float(lon_match), float(lat_match)>>)
        ELSE Returned(None)

(***************************************************************************)
(* get_predicted_intensity.  Thresholds are in hundredths: 80 is 0.8 gal,  *)
(* 1500 is 15 kine.                                                        *)
(***************************************************************************)
\* x <= c
Le(x, c) == x.k = "-inf" \/ (x.k = "num" /\ x.v <= c)
\* x > c
Gt(x, c) == x.k = "inf" \/ (x.k = "num" /\ x.v > c)

\* a variant whose "6+" bracket opens above 80 kine: pgv = 80 falls in no branch
get_predicted_intensity_gap(pga, pgv) ==
    IF Lt(pga, 80) THEN <<"0">>
    ELSE IF Lt(pga, 250) THEN <<"1">>
    ELSE IF Lt(pga, 800) THEN <<"2">>
    ELSE IF Lt(pga, 2500) THEN <<"3">>
    ELSE IF Lt(pga, 8000) THEN <<"4">>
    ELSE IF Lt(pgv, 1500) THEN <<"4">>
    ELSE IF Ge(pgv, 1500) /\ Lt(pgv, 3000) THEN <<"5", "-">>
    ELSE IF Ge(pgv, 3000) /\ Lt(pgv, 5000) THEN <<"5", "+">>
    ELSE IF Ge(pgv, 5000) /\ Lt(pgv, 8000) THEN <<"6", "-">>
    ELSE IF Gt(pgv, 8000) /\ Lt(pgv, 14000) THEN <<"6", "+">>
    ELSE IF Ge(pgv, 14000) THEN <<"7">>
    ELSE <<"?">>

\* a variant whose PGA brackets are closed above: pga = 0.8 stays in "0", ...
get_predicted_intensity_closed(pga, pgv) ==
    IF Le(pga, 80) THEN <<"0">>
    ELSE IF Le(pga, 250) THEN <<"1">>
    ELSE IF Le(pga, 800) THEN <<"2">>
    ELSE IF Le(pga, 2500) THEN <<"3">>
    ELSE IF Le(pga, 8000) THEN <<"4">>
    ELSE IF Lt(pgv, 1500) THEN <<"4">>
    ELSE IF Ge(pgv, 1500) /\ Lt(pgv, 3000) THEN <<"5", "-">>
    ELSE IF Ge(pgv, 3000) /\ Lt(pgv, 5000) THEN <<"5", "+">>
    ELSE IF Ge(pgv, 5000) /\ Lt(pgv, 8000) THEN <<"6", "-">>
    ELSE IF Ge(pgv, 8000) /\ Lt(pgv, 14000) THEN <<"6", "+">>
    ELSE IF Ge(pgv, 14000) THEN <<"7">>
    ELSE <<"?">>

get_predicted_intensity(pga, pgv) ==
    IF Lt(pga, 80) THEN <<"0">>
    ELSE IF Lt(pga, 250) THEN <<"1">>
    ELSE IF Lt(pga, 800) THEN <<"2">>
    ELSE IF Lt(pga, 2500) THEN <<"3">>
    ELSE IF Lt(pga, 8000) THEN <<"4">>
    ELSE IF Lt(pgv, 1500) THEN <<"4">>
    ELSE IF Ge(pgv, 1500) /\ Lt(pgv, 3000) THEN <<"5", "-">>
    ELSE IF Ge(pgv, 3000) /\ Lt(pgv, 5000) THEN <<"5", "+">>
    ELSE IF Ge(pgv, 5000) /\ Lt(pgv, 8000) THEN <<"6", "-">>
    ELSE IF Ge(pgv, 8000) /\ Lt(pgv, 14000) THEN <<"6", "+">>
    ELSE IF Ge(pgv, 14000) THEN <<"7">>
    ELSE <<"?">>

(***************************************************************************)
(* obs_intensity_map and its lookup with a default,                        *)
(* obs_intensity_map.get(obs_int, (obs_int, "black")).                     *)
(***************************************************************************)
ObsLabels == {<<"7", "ji">>, <<"6", "qiang">>, <<"6", "ruo">>, <<"5", "qiang">>,
              <<"5", "ruo">>, <<"4", "ji">>, <<"3", "ji">>, <<"2", "ji">>, <<"1", "ji">>}

obs_intensity_map ==
    [l \in ObsLabels |->
        CASE l = <<"7", "ji">>    -> <<<<"7">>, "red">>
          [] l = <<"6", "qiang">> -> <<<<"6", "+">>, "red">>
          [] l = <<"6", "ruo">>   -> <<<<"6", "-">>, "red">>
          [] l = <<"5", "qiang">> -> <<<<"5", "+">>, "red">>
          [] l = <<"5", "ruo">>   -> <<<<"5", "-">>, "red">>
          [] l = <<"4", "ji">>    -> <<<<"4">>, "green">>
          [] l = <<"3", "ji">>    -> <<<<"3">>, "green">>
          [] l = <<"2", "ji">>    -> <<<<"2">>, "blue">>
          [] l = <<"1", "ji">>    -> <<<<"1">>, "black">>]

\* a variant whose default does not pass the raw label through
obs_intensity_get_unknown(obs_int) ==
    IF obs_int \in DOMAIN obs_intensity_map THEN obs_intensity_map[obs_int]
    ELSE <<<<"?">>, "black">>

obs_intensity_get(obs_int) ==
    IF obs_int \in DOMAIN obs_intensity_map THEN obs_intensity_map[obs_int]
    ELSE <<obs_int, "black">>

(***************************************************************************)
(* One call of a pure function: the arguments are drawn in the initial     *)
(* state, the call stores what the function returns or raises.  main()     *)
(* does not run in these specifications.                                   *)
(***************************************************************************)
Pending == [st |-> "pending", val |-> <<>>]

SeqsUpTo(S, n) == UNION {[1..m -> S] : m \in 0..n}

MainIdle ==
    /\ pc = "idle"
    /\ file = [exists |-> FALSE, big5 |-> FALSE, cp950 |-> FALSE, hdr |-> <<>>, records |-> <<>>]
    /\ attempts = <<>>
    /\ header = <<>>
    /\ stations = <<>>
    /\ stdout = <<>>
    /\ actual_epicenter = Pending
    /\ exc = [type |-> "none", at |-> "none"]
    /\ ax_obs = <<>>
    /\ text = <<>>
    /\ parts = <<>>
    /\ i = 0

PgaThresholds == {80, 250, 800, 2500, 8000}
PgvThresholds == {1500, 3000, 5000, 8000, 14000}

PgaValues == {Num(t + d) : t \in PgaThresholds, d \in (0 - Near)..Near}
             \cup {Num(0), Num(0 - 1), Num(100000), Inf, NaN}
PgvValues == {Num(t + d) : t \in PgvThresholds, d \in (0 - Near)..Near}
             \cup {Num(0), Num(0 - 1), Num(100000), Inf, NaN}

LabelSymbols == {"0", "1", "2", "3", "4", "5", "6", "7", "ji", "qiang", "ruo", "-", "+"}
RawLabels == SeqsUpTo(LabelSymbols, MaxLabelLen)

InitClassify ==
    /\ MainIdle
    /\ \/ fn = "get_predicted_intensity" /\ args \in PgaValues \X PgvValues
       \/ fn = "obs_intensity_map.get" /\ args \in {<<l>> : l \in RawLabels}
    /\ ret = Pending

CallGetPredictedIntensity ==
    /\ fn = "get_predicted_intensity"
    /\ ret.st = "pending"
    /\ ret' = Returned(get_predicted_intensity(args[1], args[2]))
    /\ UNCHANGED <<fn, args>>
    /\ UNCHANGED mainVars

CallObsIntensityGet ==
    /\ fn = "obs_intensity_map.get"
    /\ ret.st = "pending"
    /\ ret' = Returned(obs_intensity_get(args[1]))
    /\ UNCHANGED <<fn, args>>
    /\ UNCHANGED mainVars

NextClassify == CallGetPredictedIntensity \/ CallObsIntensityGet

SpecClassify == InitClassify /\ [][NextClassify]_vars

HeaderSymbols == {"Lon:", "Lat:", "1", ".", " ", "x"}

InitEpicenter ==
    /\ MainIdle
    /\ fn = "parse_actual_epicenter"
    /\ args \in {<<h>> : h \in SeqsUpTo(HeaderSymbols, MaxHeaderLen)}
    /\ ret = Pending

CallParseActualEpicenter ==
    /\ fn = "parse_actual_epicenter"
    /\ ret.st = "pending"
    /\ ret' = parse_actual_epicenter(args[1])
    /\ UNCHANGED <<fn, args>>
    /\ UNCHANGED mainVars

NextEpicenter == CallParseActualEpicenter

SpecEpicenter == InitEpicenter /\ [][NextEpicenter]_vars

(***************************************************************************)
(* Claims about the pure functions.                                        *)
(***************************************************************************)
IntensityCodes == {<<"0">>, <<"1">>, <<"2">>, <<"3">>, <<"4">>, <<"5", "-">>, <<"5", "+">>,
                   <<"6", "-">>, <<"6", "+">>, <<"7">>}

ClassifyReturned == fn = "get_predicted_intensity" /\ ret.st = "returned"

\* C1: for every pga >= 0 and pgv >= 0 get_predicted_intensity returns one of the
\* ten intensity codes, and never the "?" of its last branch.
C1_TotalOnNonNegative ==
    (ClassifyReturned /\ Ge(args[1], 0) /\ Ge(args[2], 0))
        => (ret.val \in IntensityCodes /\ ret.val # <<"?">>)

\* non-negative inputs on which every elif before the last one has failed
C1_Witness ==
    /\ ClassifyReturned
    /\ Ge(args[1], 8000) /\ args[2] = Inf
    /\ ret.val = <<"7">>

\* The half-open brackets of the threshold table: <<has a lower bound, lower bound,
\* has an upper bound, upper bound, code>>, bounds in hundredths.
PgaTable == { <<FALSE, 0, TRUE, 80, <<"0">> >>,
              <<TRUE, 80, TRUE, 250, <<"1">> >>,
              <<TRUE, 250, TRUE, 800, <<"2">> >>,
              <<TRUE, 800, TRUE, 2500, <<"3">> >>,
              <<TRUE, 2500, TRUE, 8000, <<"4">> >> }
PgvTable == { <<FALSE, 0, TRUE, 1500, <<"4">> >>,
              <<TRUE, 1500, TRUE, 3000, <<"5", "-">> >>,
              <<TRUE, 3000, TRUE, 5000, <<"5", "+">> >>,
              <<TRUE, 5000, TRUE, 8000, <<"6", "-">> >>,
              <<TRUE, 8000, TRUE, 14000, <<"6", "+">> >>,
              <<TRUE, 14000, FALSE, 0, <<"7">> >> }
InBracket(x, b) == /\ x.k # "nan"
                   /\ (b[1] => Ge(x, b[2]))
                   /\ (b[3] => Lt(x, b[4]))

BoundaryCases == { <<80, 0, <<"1">> >>, <<250, 0, <<"2">> >>, <<800, 0, <<"3">> >>,
                   <<2500, 0, <<"4">> >>, <<8000, 1500, <<"5", "-">> >>,
                   <<8000, 3000, <<"5", "+">> >>, <<8000, 5000, <<"6", "-">> >>,
                   <<8000, 8000, <<"6", "+">> >>, <<8000, 14000, <<"7">> >> }

\* C2: get_predicted_intensity agrees with the half-open threshold table, every
\* boundary value resolves to the upper bracket, and below 80 gal the result does
\* not depend on pgv.
C2_AgreesWithTable ==
    ClassifyReturned =>
        /\ \A b \in PgaTable : InBracket(args[1], b) => ret.val = b[5]
        /\ Ge(args[1], 8000) => \A b \in PgvTable : InBracket(args[2], b) => ret.val = b[5]
        /\ \A c \in BoundaryCases :
              (args[1] = Num(c[1]) /\ args[2] = Num(c[2])) => ret.val = c[3]
        /\ Lt(args[1], 8000) =>
              \A v \in PgvValues : get_predicted_intensity(args[1], v) = ret.val

\* pga exactly 80 gal and pgv exactly 140 kine: both boundaries at once
C2_Witness ==
    /\ ClassifyReturned
    /\ args = <<Num(8000), Num(14000)>>
    /\ ret.val = <<"7">>

ObsReturned == fn = "obs_intensity_map.get" /\ ret.st = "returned"

ObsColors(labels) == {obs_intensity_map[l][2] : l \in labels}

\* C9 as stated: the nine labels map to codes of the predicted scale, an unknown
\* label passes through unchanged, and its default severity differs from the
\* severity of every known label.
C9_DefaultDistinguishable ==
    /\ fn = "obs_intensity_map.get" => ret.st # "raised"
    /\ ObsReturned =>
        /\ args[1] \in ObsLabels => ret.val[1] \in IntensityCodes
        /\ args[1] \notin ObsLabels =>
              /\ ret.val[1] = args[1]
              /\ ret.val[2] \notin ObsColors(ObsLabels)

\* C9, amended: the nine labels map to codes of the predicted scale with the
\* severity of the table, an unknown label passes through unchanged with the
\* default severity "black", which is also the severity of "1 ji" and differs
\* from the severity of the eight other known labels; the lookup never raises.
C9_DefaultIsBlack ==
    /\ fn = "obs_intensity_map.get" => ret.st # "raised"
    /\ ObsReturned =>
        /\ args[1] \in ObsLabels =>
              /\ ret.val = obs_intensity_map[args[1]]
              /\ ret.val[1] \in IntensityCodes
        /\ args[1] \notin ObsLabels =>
              /\ ret.val = <<args[1], "black">>
              /\ ret.val[2] = obs_intensity_map[<<"1", "ji">>][2]
              /\ ret.val[2] \notin ObsColors(ObsLabels \ {<<"1", "ji">>})

\* an unknown, non-empty label went through the lookup
C9_Witness ==
    /\ ObsReturned
    /\ args[1] = <<"0", "ji">>
    /\ ret.val = <<<<"0", "ji">>, "black">>

\* C7 as stated: for every header parse_actual_epicenter yields a pair or None,
\* never an error.
C7_NeverRaises ==
    (fn = "parse_actual_epicenter" /\ ret.st # "pending") => ret.st = "returned"

(***************************************************************************)
(* The station file.  Its content is written as a header and a list of     *)
(* records, each a station code, a list of fields and an end; the text     *)
(* that open().read() returns is the rendering of that content.            *)
(***************************************************************************)
Field(key, val) == [key |-> key, val |-> val, eq |-> TRUE, pad |-> FALSE]
Padded(key, val) == [key |-> key, val |-> val, eq |-> TRUE, pad |-> TRUE]
Junk(val) == [key |-> "", val |-> val, eq |-> FALSE, pad |-> FALSE]
Record(code, fields, end) == [code |-> code, fields |-> fields, end |-> end]

RenderField(f) ==
    IF ~f.eq THEN f.val
    ELSE IF f.pad THEN <<" ", f.key, " ", "=", " ">> \o f.val \o <<" ">>
    ELSE <<f.key, "=">> \o f.val

RECURSIVE RenderFields(_)
RenderFields(fs) == IF fs = <<>> THEN <<>>
                    ELSE <<",">> \o RenderField(Head(fs)) \o RenderFields(Tail(fs))

RenderRecord(r) == <<"Stacode", "=">> \o r.code \o RenderFields(r.fields) \o r.end

RECURSIVE RenderRecords(_)
RenderRecords(rs) == IF rs = <<>> THEN <<>>
                     ELSE RenderRecord(Head(rs)) \o RenderRecords(Tail(rs))

RenderFile(f) == f.hdr \o RenderRecords(f.records)

\* a sequence without its k-th element, and with its k-th element replaced
Without(seq, k) == SubSeq(seq, 1, k - 1) \o SubSeq(seq, k + 1, Len(seq))
With(seq, k, e) == [seq EXCEPT ![k] = e]

Lon121 == <<"1", "2", "1", ".", "0">>
LonEpi == <<"1", "2", "0", ".", "5", "3">>
Lon125 == <<"1", "2", "5">>
Lat235 == <<"2", "3", ".", "5">>
LatEpi == <<"2", "3", ".", "2", "8">>

BaseFields == << Field("Stalon", Lon121), Field("Stalat", Lat235), Field("Int", <<"4", "ji">>),
                 Field("PGA(SUM)", <<"1", "2", ".", "3">>), Field("PGV(SUM)", <<"5", ".", "1">>) >>
EpiFields ==  << Field("Stalon", LonEpi), Field("Stalat", LatEpi), Field("Int", <<"6", "ruo">>),
                 Field("PGA(SUM)", <<"5", "0", "0">>), Field("PGV(SUM)", <<"4", "0">>) >>
FarFields ==  << Field("Stalon", Lon125), Field("Stalat", Lat235), Field("Int", <<"x">>),
                 Field("PGA(SUM)", <<"5">>), Field("PGV(SUM)", <<"2">>) >>

A1 == <<"A", "1">>
A2 == <<"A", "2">>
EOL == <<"\n">>

RecordShapes ==
    \* well-formed records; the third repeats the station code of the first
    { Record(A1, BaseFields, EOL), Record(A2, EpiFields, EOL), Record(A1, FarFields, <<",">>) }
    \* one required key absent
    \cup { Record(A1, Without(BaseFields, k), EOL) : k \in 1..5 }
    \* one numeric value that is no float
    \cup { Record(A2, With(BaseFields, 1, Field("Stalon", <<"b", "a", "d">>)), EOL),
           Record(A2, With(BaseFields, 2, Field("Stalat", <<>>)), EOL),
           Record(A2, With(BaseFields, 4, Field("PGA(SUM)", <<"1", ".", "2", ".", "3">>)), EOL),
           Record(A2, With(BaseFields, 5, Field("PGV(SUM)", <<"1", "=", "2">>)), EOL) }
    \* a required key absent and a numeric value that is no float
    \cup { Record(A1, Without(With(BaseFields, 1, Field("Stalon", <<"b", "a", "d">>)), 2), EOL) }
    \* an extra key, a field without "=", blanks around keys and values
    \cup { Record(A2, <<Field("Staname", <<"x">>)>> \o BaseFields, EOL),
           Record(A2, BaseFields \o <<Junk(<<"x">>)>>, EOL),
           Record(A2, With(With(EpiFields, 1, Padded("Stalon", LonEpi)), 3,
                           Padded("Int", <<"3", "ji">>)), <<" ", "\n">>) }
    \* a key given twice: the later value stands
    \cup { Record(A2, <<Field("Stalon", <<"b", "a", "d">>)>> \o BaseFields, EOL) }
    \* coordinates float() accepts that are no finite number
    \cup { Record(A1, With(BaseFields, 1, Field("Stalon", <<"inf">>)), EOL),
           Record(A1, With(BaseFields, 2, Field("Stalat", <<"nan">>)), EOL) }

HeaderEpi == <<"x", " ", "Lon:">> \o LonEpi \o <<" ", "Lat:">> \o LatEpi \o <<"\n">>

Headers ==
    { <<>>,
      HeaderEpi,
      <<"Lon:">> \o Lon121 \o <<"\n">>,
      <<"Lon:", ".", " ", "Lat:", "1", "\n">> }

File(big5, cp950, hdr, records) ==
    [exists |-> TRUE, big5 |-> big5, cp950 |-> cp950, hdr |-> hdr, records |-> records]

\* Files big5 decodes, with up to MaxRecords records after the header that holds
\* an epicenter; files with any of the headers, decoded by big5 or by cp950 only,
\* with at most one record (after the read, and after the header is parsed, these
\* runs go on as the ones above); a file neither decodes; and no file at all.
Files ==
    { File(TRUE, TRUE, HeaderEpi, rs) : rs \in SeqsUpTo(RecordShapes, MaxRecords) }
    \cup { File(b, TRUE, h, rs) : b \in BOOLEAN, h \in Headers, rs \in SeqsUpTo(RecordShapes, 1) }
    \cup { File(FALSE, FALSE, <<>>, <<>>),
           [exists |-> FALSE, big5 |-> FALSE, cp950 |-> FALSE, hdr |-> <<>>, records |-> <<>>] }

(***************************************************************************)
(* parse_station_data, lines 44-63: one station record.                    *)
(***************************************************************************)
Put(d, key, value) == [x \in DOMAIN d \cup {key} |-> IF x = key THEN value ELSE d[x]]

\* for field in fields: ... station[key.strip()] = value.strip()
RECURSIVE BuildStation(_, _)
BuildStation(fields, station) ==
    IF fields = <<>> THEN station
    ELSE LET field == strip(Head(fields))
             j == find(field, <<"=">>)
         IN  IF j = 0 THEN BuildStation(Tail(fields), station)
             ELSE BuildStation(Tail(fields),
                               Put(station, strip(SubSeq(field, 1, j - 1)),
                                   strip(SubSeq(field, j + 1, Len(field)))))

\* a variant of the required keys that leaves the observed intensity out
required_without_int == {<<"Stacode">>, <<"Stalon">>, <<"Stalat">>, <<"PGA(SUM)">>, <<"PGV(SUM)">>}

required == {<<"Stacode">>, <<"Stalon">>, <<"Stalat">>, <<"Int">>, <<"PGA(SUM)">>, <<"PGV(SUM)">>}

NumericKeys == << <<"Stalon">>, <<"Stalat">>, <<"PGA(SUM)">>, <<"PGV(SUM)">> >>

\* the try block: the four conversions in order; the first that fails raises
RECURSIVE ConvertFrom(_, _)
ConvertFrom(station, k) ==
    IF k > Len(NumericKeys) THEN Returned(station)
    ELSE LET key == NumericKeys[k]
             x == float(station[key])
         IN  IF x = ValueError THEN Raised(station[key])
             ELSE ConvertFrom([station EXCEPT ![key] = x], k + 1)

Convert(station) == ConvertFrom(station, 1)

\* a variant of stations.append(station) that puts the station first
Accept_first(list, station) == <<station>> \o list

Accept(list, station) == Append(list, station)

\* print("...:", e) of the except block
Diagnostic(value) == [msg |-> "conversion error", arg |-> value]

\* a variant of the except block that drops the record without printing
Report_silent(out, value) == out

Report(out, value) == Append(out, Diagnostic(value))

(***************************************************************************)
(* The attenuation model at the hypothesized event of main().  The closed  *)
(* forms use sin, cos, atan2, exp, log10 and real powers; at the finite    *)
(* coordinates of the model their values, evaluated in IEEE doubles and    *)
(* rounded to hundredths, are tabulated.  What is modelled in full is      *)
(* where they raise and where a nan goes through.                          *)
(***************************************************************************)
epi_lon == 12053
epi_lat == 2328
depth == 1000
mag == 640

IsInfinite(x) == x.k \in {"inf", "-inf"}

\* haversine from the hypothesized epicenter, km in hundredths
GreatCircle(lon2, lat2) ==
    CASE lon2 = 12100 /\ lat2 = 2350 -> 5384
      [] lon2 = 12100 /\ lat2 = 2328 -> 4801
      [] lon2 = 12053 /\ lat2 = 2350 -> 2446
      [] lon2 = 12053 /\ lat2 = 2328 -> 0
      [] lon2 = 12500 /\ lat2 = 2350 -> 45683
      [] lon2 = 12500 /\ lat2 = 2328 -> 45656

\* math.sin and math.cos raise ValueError at an infinity and return nan at a nan
haversine(lon1, lat1, lon2, lat2) ==
    IF \E x \in {lon1, lat1, lon2, lat2} : IsInfinite(x) THEN Raised("ValueError")
    ELSE IF \E x \in {lon1, lat1, lon2, lat2} : x.k = "nan" THEN Returned(NaN)
    ELSE Returned(Num(GreatCircle(lon2.v, lat2.v)))

\* 1.657 * exp(1.533 * 6.4) * sqrt(h^2 + 10^2) ^ -1.607, gal in hundredths
AttenuatedPGA(h) ==
    CASE h = 5384 -> 4858 [] h = 4801 -> 5802 [] h = 2446 -> 15668
      [] h = 0 -> 74692 [] h = 45683 -> 161 [] h = 45656 -> 161

\* lines 76-81 at depth 10 and magnitude 6.4, kine in hundredths
AttenuatedPGV(h) ==
    CASE h = 5384 -> 644 [] h = 4801 -> 751 [] h = 2446 -> 1790
      [] h = 0 -> 5010 [] h = 45683 -> 11 [] h = 45656 -> 11

predict_pga(sta_lon, sta_lat, e_lon, e_lat, dep, m) ==
    LET horizontal_dist == haversine(e_lon, e_lat, sta_lon, sta_lat)
    IN  IF horizontal_dist.st = "raised" THEN horizontal_dist
        ELSE IF horizontal_dist.val = NaN THEN Returned(NaN)
        ELSE IF horizontal_dist.val.v = 0 /\ dep.v = 0 THEN Raised("ZeroDivisionError")
        ELSE Returned(Num(AttenuatedPGA(horizontal_dist.val.v)))

predict_pgv(sta_lon, sta_lat, e_lon, e_lat, dep, m) ==
    LET horizontal_dist == haversine(e_lon, e_lat, sta_lon, sta_lat)
    IN  IF horizontal_dist.st = "raised" THEN horizontal_dist
        ELSE IF horizontal_dist.val = NaN THEN Returned(NaN)
        ELSE Returned(Num(AttenuatedPGV(horizontal_dist.val.v)))

(***************************************************************************)
(* main().                                                                 *)
(***************************************************************************)
NoException == [type |-> "none", at |-> "none"]
Exception(type, at) == [type |-> type, at |-> at]

InitMain ==
    /\ pc = "open_big5"
    /\ file \in Files
    /\ attempts = <<>>
    /\ header = <<>>
    /\ stations = <<>>
    /\ stdout = <<>>
    /\ actual_epicenter = Pending
    /\ exc = NoException
    /\ ax_obs = <<>>
    /\ text = <<>>
    /\ parts = <<>>
    /\ i = 0
    /\ fn = "main"
    /\ args = <<>>
    /\ ret = Pending

Crash(type, at) ==
    /\ pc' = "crashed"
    /\ exc' = Exception(type, at)

\* a variant of the first attempt that goes to the fallback on any error
OpenBig5_fallback_always ==
    /\ pc = "open_big5"
    /\ attempts' = Append(attempts, "big5")
    /\ IF file.exists /\ file.big5
       THEN /\ text' = RenderFile(file)
            /\ pc' = "split"
       ELSE /\ pc' = "open_cp950"
            /\ UNCHANGED text
    /\ UNCHANGED <<file, header, stations, stdout, actual_epicenter, exc, ax_obs, parts, i>>
    /\ UNCHANGED callVars

\* lines 34-37: open(filename, "r", encoding="big5") and f.read()
OpenBig5 ==
    /\ pc = "open_big5"
    /\ attempts' = Append(attempts, "big5")
    /\ IF ~file.exists
       THEN /\ Crash("FileNotFoundError", "read")
            /\ UNCHANGED text
       ELSE IF file.big5
       THEN /\ text' = RenderFile(file)
            /\ pc' = "split"
            /\ UNCHANGED exc
       ELSE /\ pc' = "open_cp950"
            /\ UNCHANGED <<text, exc>>
    /\ UNCHANGED <<file, header, stations, stdout, actual_epicenter, ax_obs, parts, i>>
    /\ UNCHANGED callVars

\* lines 37-39: except UnicodeDecodeError: open(filename, "r", encoding="cp950")
OpenCp950 ==
    /\ pc = "open_cp950"
    /\ attempts' = Append(attempts, "cp950")
    /\ IF ~file.exists
       THEN /\ Crash("FileNotFoundError", "read")
            /\ UNCHANGED text
       ELSE IF file.cp950
       THEN /\ text' = RenderFile(file)
            /\ pc' = "split"
            /\ UNCHANGED exc
       ELSE /\ Crash("UnicodeDecodeError", "read")
            /\ UNCHANGED text
    /\ UNCHANGED <<file, header, stations, stdout, actual_epicenter, ax_obs, parts, i>>
    /\ UNCHANGED callVars

\* lines 41-43
SplitText ==
    /\ pc = "split"
    /\ parts' = split(text, <<"Stacode", "=">>)
    /\ header' = strip(parts'[1])
    /\ stations' = <<>>
    /\ i' = 0
    /\ pc' = "parse"
    /\ UNCHANGED <<file, attempts, stdout, actual_epicenter, exc, ax_obs, text>>
    /\ UNCHANGED callVars

\* lines 44-63: one iteration of  for part in parts[1:]
ParseRecord ==
    /\ pc = "parse"
    /\ i < Len(parts) - 1
    /\ LET part == parts[i + 2]
           seg == <<"Stacode", "=">> \o part
           fields == split(seg, <<",">>)
           station == BuildStation(fields, <<>>)
       IN  IF required \subseteq DOMAIN station
           THEN LET converted == Convert(station)
                IN  IF converted.st = "raised"
                    THEN /\ stdout' = Report(stdout, converted.val)
                         /\ UNCHANGED stations
                    ELSE /\ stations' = Accept(stations, converted.val)
                         /\ UNCHANGED stdout
           ELSE UNCHANGED <<stations, stdout>>
    /\ i' = i + 1
    /\ UNCHANGED <<pc, file, attempts, header, actual_epicenter, exc, ax_obs, text, parts>>
    /\ UNCHANGED callVars

\* line 64 and line 143: return header, stations (text and parts are locals of
\* parse_station_data and end here); print(f"Parsed {len(stations)} stations.")
ParseReturn ==
    /\ pc = "parse"
    /\ i = Len(parts) - 1
    /\ stdout' = Append(stdout, [msg |-> "Parsed stations", arg |-> <<Len(stations)>>])
    /\ pc' = "epicenter"
    /\ text' = <<>>
    /\ parts' = <<>>
    /\ UNCHANGED <<file, attempts, header, stations, actual_epicenter, exc, ax_obs, i>>
    /\ UNCHANGED callVars

\* line 145
ParseActualEpicenter ==
    /\ pc = "epicenter"
    /\ LET r == parse_actual_epicenter(header)
       IN  IF r.st = "raised"
           THEN /\ Crash(r.val, "parse_actual_epicenter")
                /\ UNCHANGED actual_epicenter
           ELSE /\ actual_epicenter' = r
                /\ pc' = "predict"
                /\ UNCHANGED exc
    /\ i' = 0
    /\ UNCHANGED <<file, attempts, header, stations, stdout, ax_obs, text, parts>>
    /\ UNCHANGED callVars

Derived == {<<"predicted_pga">>, <<"predicted_pgv">>, <<"predicted_intensity">>}

WithDerived(sta, pga, pgv) ==
    Put(Put(Put(sta, <<"predicted_pga">>, pga), <<"predicted_pgv">>, pgv),
        <<"predicted_intensity">>, get_predicted_intensity(pga, pgv))

\* a variant of the loop body that catches the error of a station, stores nan and
\* "?" for it and goes on
PredictStation_sentinel ==
    /\ pc = "predict"
    /\ i < Len(stations)
    /\ LET sta == stations[i + 1]
           pga == predict_pga(sta[<<"Stalon">>], sta[<<"Stalat">>],
                              Num(epi_lon), Num(epi_lat), Num(depth), Num(mag))
           pgv == predict_pgv(sta[<<"Stalon">>], sta[<<"Stalat">>],
                              Num(epi_lon), Num(epi_lat), Num(depth), Num(mag))
       IN  IF pga.st = "raised" \/ pgv.st = "raised"
           THEN stations' = [stations EXCEPT ![i + 1] = WithDerived(sta, NaN, NaN)]
           ELSE stations' = [stations EXCEPT ![i + 1] = WithDerived(sta, pga.val, pgv.val)]
    /\ i' = i + 1
    /\ UNCHANGED <<pc, exc, file, attempts, header, stdout, actual_epicenter, ax_obs, text, parts>>
    /\ UNCHANGED callVars

\* lines 151-157: one iteration of  for sta in stations
PredictStation ==
    /\ pc = "predict"
    /\ i < Len(stations)
    /\ LET sta == stations[i + 1]
           pga == predict_pga(sta[<<"Stalon">>], sta[<<"Stalat">>],
                              Num(epi_lon), Num(epi_lat), Num(depth), Num(mag))
           pgv == predict_pgv(sta[<<"Stalon">>], sta[<<"Stalat">>],
                              Num(epi_lon), Num(epi_lat), Num(depth), Num(mag))
       IN  IF pga.st = "raised"
           THEN /\ Crash(pga.val, "predict_pga")
                /\ UNCHANGED <<stations, i>>
           ELSE IF pgv.st = "raised"
           THEN /\ Crash(pgv.val, "predict_pgv")
                /\ UNCHANGED <<stations, i>>
           ELSE /\ stations' = [stations EXCEPT ![i + 1] = WithDerived(sta, pga.val, pgv.val)]
                /\ i' = i + 1
                /\ UNCHANGED <<pc, exc>>
    /\ UNCHANGED <<file, attempts, header, stdout, actual_epicenter, ax_obs, text, parts>>
    /\ UNCHANGED callVars

\* lines 159-177: the boundary file is read, the error percentages and the axis
\* ranges are computed; min() of an empty list raises ValueError
Statistics ==
    /\ pc = "predict"
    /\ i = Len(stations)
    /\ IF stations = <<>>
       THEN Crash("ValueError", "min")
       ELSE /\ pc' = "render"
            /\ UNCHANGED exc
    /\ UNCHANGED <<file, attempts, header, stations, stdout, actual_epicenter, ax_obs, text,
                   parts, i>>
    /\ UNCHANGED callVars

\* xmin <= lon <= xmax and ymin <= lat <= ymax with 119, 123, 21, 26 of line 160
InMap(lon, lat) == /\ Ge(lon, 11900) /\ Le(lon, 12300)
                   /\ Ge(lat, 2100) /\ Le(lat, 2600)

\* lines 195-201: the texts of the observed intensity map
RECURSIVE ObservedTexts(_)
ObservedTexts(list) ==
    IF list = <<>> THEN <<>>
    ELSE LET sta == Head(list)
             lon == sta[<<"Stalon">>]
             lat == sta[<<"Stalat">>]
             label_color == obs_intensity_get(sta[<<"Int">>])
         IN  IF ~InMap(lon, lat) THEN ObservedTexts(Tail(list))
             ELSE <<[lon |-> lon, lat |-> lat, label |-> label_color[1],
                     color |-> label_color[2]]>> \o ObservedTexts(Tail(list))

\* lines 179-320: the figure; of it the model keeps the observed map's texts
Render ==
    /\ pc = "render"
    /\ ax_obs' = ObservedTexts(stations)
    /\ pc' = "done"
    /\ UNCHANGED <<file, attempts, header, stations, stdout, actual_epicenter, exc, text,
                   parts, i>>
    /\ UNCHANGED callVars

Next ==
    \/ OpenBig5
    \/ OpenCp950
    \/ SplitText
    \/ ParseRecord
    \/ ParseReturn
    \/ ParseActualEpicenter
    \/ PredictStation
    \/ Statistics
    \/ Render

Spec == InitMain /\ [][Next]_vars

(***************************************************************************)
(* Claims about parse_station_data, stated on the content of the file.     *)
(***************************************************************************)
\* the mapping a record denotes: its code, then its key=value fields in order,
\* a later value of a key replacing an earlier one
RECURSIVE FieldsOf(_, _)
FieldsOf(fs, d) ==
    IF fs = <<>> THEN d
    ELSE FieldsOf(Tail(fs), IF Head(fs).eq THEN Put(d, <<Head(fs).key>>, Head(fs).val) ELSE d)

MappingOf(r) == FieldsOf(r.fields, Put(<<>>, <<"Stacode">>, r.code))

SixKeys == {<<"Stacode">>, <<"Stalon">>, <<"Stalat">>, <<"Int">>, <<"PGA(SUM)">>, <<"PGV(SUM)">>}
FourNumeric == {<<"Stalon">>, <<"Stalat">>, <<"PGA(SUM)">>, <<"PGV(SUM)">>}

Complete(r) == SixKeys \subseteq DOMAIN MappingOf(r)
Coercible(r) == \A k \in FourNumeric \cap DOMAIN MappingOf(r) : float(MappingOf(r)[k]) # ValueError
WellFormed(r) == Complete(r) /\ Coercible(r)
CompleteNotCoercible(r) == Complete(r) /\ ~Coercible(r)

StationOf(r) ==
    [k \in DOMAIN MappingOf(r) |->
        IF k \in FourNumeric THEN float(MappingOf(r)[k]) ELSE MappingOf(r)[k]]

Map1(Op(_), seq) == [j \in 1..Len(seq) |-> Op(seq[j])]

InParseLoop == pc = "parse" /\ i < Len(file.records)

\* C3: a record is accepted if and only if its six required keys are present and
\* its four numeric values coerce to floats; any other record is discarded, and
\* either way the loop goes on to the next record.
C3_AcceptedIffWellFormed ==
    [][ InParseLoop =>
          LET r == file.records[i + 1]
          IN  /\ pc' = "parse" /\ i' = i + 1 /\ exc' = NoException
              /\ WellFormed(r) <=> Len(stations') = Len(stations) + 1
              /\ ~WellFormed(r) => stations' = stations ]_vars

\* a discarded record was followed by an accepted one, and an extra key was read
C3_Witness ==
    /\ pc = "parse" /\ i = 2
    /\ ~WellFormed(file.records[1])
    /\ <<"Staname">> \in DOMAIN MappingOf(file.records[2])
    /\ Len(stations) = 1

\* the first value, in the order of the conversions, that is no float
FirstNotCoercible(r) ==
    LET m == MappingOf(r)
    IN  IF float(m[<<"Stalon">>]) = ValueError THEN m[<<"Stalon">>]
        ELSE IF float(m[<<"Stalat">>]) = ValueError THEN m[<<"Stalat">>]
        ELSE IF float(m[<<"PGA(SUM)">>]) = ValueError THEN m[<<"PGA(SUM)">>]
        ELSE m[<<"PGV(SUM)">>]

DiagnosticOf(r) == [msg |-> "conversion error", arg |-> FirstNotCoercible(r)]

Done(rs, n) == SubSeq(rs, 1, n)

\* C4 as stated: every record dropped, for a missing required field or for a
\* value that does not coerce, has caused one diagnostic.
C4_EveryDropReported ==
    pc = "parse" =>
        Len(stdout) = Cardinality({j \in 1..i : ~WellFormed(file.records[j])})

\* C4, amended: the diagnostics emitted so far are, in order, one for each record
\* that had its six required keys and a numeric value that does not coerce; a
\* record dropped for a missing required field is dropped without a diagnostic.
C4_ConversionFailuresReported ==
    pc = "parse" =>
        stdout = Map1(DiagnosticOf, SelectSeq(Done(file.records, i), CompleteNotCoercible))

\* a record with a value that is no float, then a record with a missing key
C4_Witness ==
    /\ pc = "parse" /\ i = 2
    /\ CompleteNotCoercible(file.records[1])
    /\ ~Complete(file.records[2])
    /\ Len(stdout) = 1

\* C5: the stations are exactly the accepted records, one entry each, in the order
\* of the text; nothing is reordered, merged or deduplicated.
C5_AcceptedInOrder ==
    /\ pc = "parse" =>
          stations = Map1(StationOf, SelectSeq(Done(file.records, i), WellFormed))
    /\ pc = "epicenter" =>
          stations = Map1(StationOf, SelectSeq(file.records, WellFormed))

\* two accepted records with the same station code gave two different entries
C5_Witness ==
    /\ pc = "epicenter"
    /\ Len(stations) = 2
    /\ stations[1][<<"Stacode">>] = stations[2][<<"Stacode">>]
    /\ stations[1][<<"Int">>] # stations[2][<<"Int">>]

(***************************************************************************)
(* Claims about the run of main().                                         *)
(***************************************************************************)
ReadFailed == exc.at = "read"

NothingDownstream ==
    /\ pc = "crashed"
    /\ text = <<>> /\ parts = <<>> /\ header = <<>>
    /\ stations = <<>> /\ stdout = <<>>
    /\ actual_epicenter = Pending /\ ax_obs = <<>>

EncodingOrder ==
    /\ attempts \in {<<>>, <<"big5">>, <<"big5", "cp950">>}
    /\ Len(attempts) = 2 => (file.exists /\ ~file.big5)

\* C6 as stated: big5 first, cp950 only after big5 failed to decode, the read
\* fails only if both attempts failed, and then nothing downstream runs.
C6_FailsOnlyIfBothFail ==
    /\ EncodingOrder
    /\ ReadFailed => (attempts = <<"big5", "cp950">> /\ ~file.big5 /\ ~file.cp950)
    /\ ReadFailed => NothingDownstream

\* C6, amended: big5 first, cp950 only after big5 failed to decode; the read fails
\* only if both attempts failed to decode, or if the first attempt failed with an
\* error that is no decode error (no file), which is not retried; and then
\* nothing downstream runs.
C6_FailsIfBothFailOrNoFile ==
    /\ EncodingOrder
    /\ ReadFailed =>
          \/ attempts = <<"big5", "cp950">> /\ file.exists /\ ~file.big5 /\ ~file.cp950
                /\ exc.type = "UnicodeDecodeError"
          \/ attempts = <<"big5">> /\ ~file.exists /\ exc.type = "FileNotFoundError"
    /\ ReadFailed => NothingDownstream
    /\ (pc \notin {"open_big5", "open_cp950", "crashed"} /\ file.big5) => attempts = <<"big5">>

\* both encodings were tried and both failed
C6_Witness ==
    /\ ReadFailed
    /\ attempts = <<"big5", "cp950">>
    /\ exc.type = "UnicodeDecodeError"

PredictFailed == exc.at \in {"predict_pga", "predict_pgv"}

HasDerived(sta) == Derived \subseteq DOMAIN sta
HasNoDerived(sta) == Derived \cap DOMAIN sta = {}

\* C8 as stated: a domain error of a station's prediction surfaces as an error,
\* the affected station gets no predicted fields, and the other stations of the
\* batch still get theirs.
C8_OnlyAffectedStation ==
    PredictFailed =>
        /\ exc.type \in {"ValueError", "ZeroDivisionError"}
        /\ HasNoDerived(stations[i + 1])
        /\ \A j \in 1..Len(stations) : j # i + 1 => HasDerived(stations[j])

\* the prediction of this station raises
PredictionRaises(sta) ==
    \/ predict_pga(sta[<<"Stalon">>], sta[<<"Stalat">>],
                   Num(epi_lon), Num(epi_lat), Num(depth), Num(mag)).st = "raised"
    \/ predict_pgv(sta[<<"Stalon">>], sta[<<"Stalat">>],
                   Num(epi_lon), Num(epi_lat), Num(depth), Num(mag)).st = "raised"

\* C8, amended: a domain error of a station's prediction is not caught: it ends
\* the run.  It is no parser diagnostic; the affected station never gets
\* predicted fields, nor does any station after it, the stations before it keep
\* theirs, and nothing is rendered.
C8_AbortsRun ==
    /\ \A j \in 1..Len(stations) : PredictionRaises(stations[j]) => HasNoDerived(stations[j])
    /\ PredictFailed =>
          /\ pc = "crashed"
          /\ exc.type \in {"ValueError", "ZeroDivisionError"}
          /\ stdout[Len(stdout)].msg = "Parsed stations"
          /\ i < Len(stations) /\ PredictionRaises(stations[i + 1])
          /\ \A j \in 1..Len(stations) :
                /\ j <= i => HasDerived(stations[j])
                /\ j > i => HasNoDerived(stations[j])
          /\ ax_obs = <<>>

\* the second station of the batch raised, after the first got its fields
C8_Witness ==
    /\ PredictFailed
    /\ i = 1
    /\ stations[2][<<"Stalon">>] = Inf
    /\ HasDerived(stations[1])

=============================================================================
